---- MODULE Spec2Model ----
(***************************************************************************)
(* Historical market-data pipeline of crypto-price-checker:                *)
(*   enhanced/historical_data.py   HistoricalDataManager and data sources  *)
(*   enhanced/technical_analysis.py TechnicalAnalyzer.analyze              *)
(*                                                                         *)
(* Time is in seconds, as in the code (int(datetime.timestamp())).  A      *)
(* candle carries one value field, close, that stands for its              *)
(* open/high/low/close/volume columns, which the manager always moves      *)
(* together and never inspects; the candles fetched in the n-th get_data   *)
(* call of a behaviour carry the value n, those of earlier runs 0, so that *)
(* a rewritten row differs from the row it replaces.                       *)
(* asyncio is cooperative: the code between two awaits is one atomic step, *)
(* so get_data is one step up to its first await and one step per awaited  *)
(* source.fetch_data.                                                      *)
(*                                                                         *)
(* The specifications share the variables: Spec (the manager, its store    *)
(* and its sources), SpecAnalyze (analyze up to the candle series it works *)
(* on, the series reduced to its length) and SpecIndicators (the indicator *)
(* loop of analyze on a series of close/high/low candles, and get_signals  *)
(* on its result).  Indicator values are extended rationals, so that inf   *)
(* and NaN behave as they do in pandas; the exponential averages are       *)
(* computed in fixed point.  SpecLive is Spec on a new database with the   *)
(* fairness of awaited fetches, SpecConcurrent is Spec with two callers,   *)
(* SpecSufficient exercises the sufficiency check over every interval and  *)
(* period, SpecSource is one DataSource instance (rate gate, retry wrapper *)
(* and request, with a clock in milliseconds) and SpecCalculation calls    *)
(* one indicator function on a series too short or just long enough.       *)
(***************************************************************************)
EXTENDS Integers, Sequences, FiniteSets, TLC

\* ------------------------------------------------------------------ bounds
\* most candles one provider response carries
MaxBars == 2
\* number of get_data calls in one behaviour
MaxCalls == 2
\* number of clock advances (of one day each) in one behaviour
MaxTicks == 1
\* most candles a historical data manager hands to analyze
MaxCandles == 21
\* most candles the store holds when the sufficiency check is exercised
MaxSeries == 13
\* number of fetch_data calls on one DataSource instance in one behaviour
MaxFetches == 3
\* number of clock advances while a DataSource instance is in use
MaxAdvances == 2

\* ------------------------------------------------------- program constants
\* HistoricalDataManager._interval_to_seconds: interval_map, default 3600
interval_map ==
    [i \in {"1m", "5m", "15m", "1h", "4h", "1d", "1w"} |->
        CASE i = "1m" -> 60
          [] i = "5m" -> 300
          [] i = "15m" -> 900
          [] i = "1h" -> 3600
          [] i = "4h" -> 14400
          [] i = "1d" -> 86400
          [] i = "1w" -> 604800]

_interval_to_seconds(interval) ==
    IF interval \in DOMAIN interval_map THEN interval_map[interval] ELSE 3600

\* HistoricalDataManager._parse_period: period_map (timedelta, in seconds)
period_map ==
    [p \in {"1d", "7d", "30d", "90d"} |->
        CASE p = "1d" -> 1 * 86400
          [] p = "7d" -> 7 * 86400
          [] p = "30d" -> 30 * 86400
          [] p = "90d" -> 90 * 86400]

\* data_sources with the two exchanges registered in the other order
data_sourcesSwapped == <<"OKX", "Binance", "CoinGecko">>

\* HistoricalDataManager.__init__: self.data_sources, in priority order
data_sources == <<"Binance", "OKX", "CoinGecko">>

\* CoinGeckoDataSource.coin_id_map: the tickers CoinGecko knows
coin_id_map ==
    {"BTC", "ETH", "ADA", "DOT", "LINK", "LTC", "XRP", "BNB", "SOL",
     "MATIC", "AVAX", "DOGE", "SHIB", "UNI", "ATOM"}

\* ------------------------------------------------------------ input sets
Tasks == {1, 2}
Symbols == {"BTC", "XYZ"}
Intervals == {"1d", "1w"}
ValidPeriods == {"1d", "7d", "30d", "90d"}
BadPeriod == "2h"
\* the clock starts on a week boundary and advances a day at a time
StartTime == 100 * interval_map["1w"]
TickSeconds == interval_map["1d"]

NoError == [type |-> "none", symbol |-> "", cause |-> "none"]
NoRequest == [symbol |-> "", interval |-> "", period |-> "", force_refresh |-> FALSE]
NoWindow == [start |-> 0, end |-> 0]
\* a get_data call: pc is its position (idle, fetching = suspended in
\* await source.fetch_data of data_sources[idx], returned, raised); served
\* says which branch produced the result (cache, api, stale); api_data is what
\* _fetch_from_apis returned; log lists the store and source operations of
\* the call in order
NoCall == [pc |-> "idle", req |-> NoRequest, win |-> NoWindow, idx |-> 0,
           result |-> <<>>, error |-> NoError, served |-> "none",
           api_data |-> <<>>, log |-> <<>>]

\* an analyze call: pc is its position (idle, waiting = suspended in
\* await self._get_historical_data, returned, raised); manager says whether
\* the analyzer has a historical data manager; mgr_calls counts the calls of
\* manager.get_data; mgr is what that call did; data is the number of
\* candles analyze works on
NoManagerCall == [called |-> FALSE, raised |-> FALSE, n |-> 0]
NoAnalysis == [pc |-> "idle", manager |-> TRUE, symbol |-> "", timeframe |-> "",
               period |-> "", mgr_calls |-> 0, mgr |-> NoManagerCall, data |-> 0,
               error |-> "none", field |-> "none", data_points_used |-> 0]

\* Python's None
None == [none |-> TRUE]
\* indicators=None of analyze, as opposed to a list of names
AllIndicators == [given |-> FALSE, list |-> <<>>]
\* an indicator calculation: pc is its position (idle; prepared = analyze has
\* the DataFrame df and is about to resolve and compute the indicators;
\* returned; constructed = a TechnicalIndicators object built by a caller;
\* signalled = get_signals was called on the result); indicators and
\* overrides are the indicators argument and the parameters overridden by
\* **kwargs; failed lists the indicators whose calculation raised
NoCalculation == [pc |-> "idle", df |-> <<>>, indicators |-> AllIndicators,
                  overrides |-> {}, result |-> None, failed |-> {},
                  signals |-> {}]

\* a fetch_data call on a DataSource: pc is its position (idle; sleeping =
\* suspended in the asyncio.sleep of _rate_limit_check until wake; requesting
\* = suspended in session.get; returned; raised); attempts counts the calls
\* of the coroutine function by the wrapper of retry_decorator and slept
\* lists its time.sleep delays, in seconds; http counts the requests of the
\* call and bar is the granularity it asked the provider for; msg is what
\* the message of the raised error says
NoFetch == [pc |-> "idle", symbol |-> "", interval |-> "", attempts |-> 0,
            slept |-> <<>>, wake |-> 0, http |-> 0, bar |-> "", data |-> <<>>,
            exc |-> "none", msg |-> "none"]
\* a DataSource instance: time is datetime.now().timestamp() and
\* last_request_time the attribute, both in milliseconds; issued lists the
\* times at which the rate gate let a request through; fetches and advances
\* count the fetch_data calls and the clock advances of the behaviour
NoSource == [name |-> "", time |-> 0, last_request_time |-> 0, advances |-> 0,
             fetches |-> 0, issued |-> <<>>, fetch |-> [t \in Tasks |-> NoFetch]]

VARIABLES
    now,        \* datetime.now(), in seconds
    ticks,      \* clock advances so far
    store,      \* price_history rows, in rowid order
    calls,      \* get_data calls begun so far
    active,     \* the tasks that call get_data in this behaviour
    scope,      \* the symbol, interval and period this behaviour asks for
    call,       \* per task: the get_data call in progress or just finished
    prev,       \* per task: the outcome of the call before the current one
    an,         \* the analyze call in progress or just finished
    ta,         \* the indicator calculation of one analysis and its result
    src         \* one DataSource instance and the fetch_data calls on it

vars == <<now, ticks, store, calls, active, scope, call, prev, an, ta, src>>
mgrvars == <<now, ticks, store, calls, active, scope, call, prev, src>>

\* ----------------------------------------------------------- CandleStore
\* the UNIQUE(symbol, timestamp, interval_type, data_source) key of a row
RowKey(r) == <<r.symbol, r.timestamp, r.interval, r.source>>

RECURSIVE SelectSeq2(_, _, _)
\* rows of s whose key differs from item's key
SelectSeq2(s, item, acc) ==
    IF s = <<>> THEN acc
    ELSE SelectSeq2(Tail(s), item,
            IF RowKey(Head(s)) = RowKey(item) THEN acc ELSE Append(acc, Head(s)))

\* INSERT of one row without OR REPLACE and without the UNIQUE constraint
InsertAlways(rows, item) == Append(rows, item)

\* INSERT OR REPLACE of one row: a row with the same key is deleted, the new
\* row gets a fresh rowid (it goes last)
InsertOrReplace(rows, item) == Append(SelectSeq2(rows, item, <<>>), item)

RECURSIVE SaveAllButLast(_, _)
\* _save_to_database whose loop stops one candle early
SaveAllButLast(rows, data) ==
    IF Len(data) <= 1 THEN rows
    ELSE SaveAllButLast(InsertOrReplace(rows, Head(data)), Tail(data))

\* _save_to_database that first deletes the stored series of the symbol and
\* interval it saves
SaveReplacingSeries(rows, data) ==
    IF data = <<>> THEN rows
    ELSE SelectSeq(rows, LAMBDA r : r.symbol # data[1].symbol \/ r.interval # data[1].interval)
            \o data

RECURSIVE _save_to_database(_, _)
\* HistoricalDataManager._save_to_database, the committed transaction
_save_to_database(rows, data) ==
    IF data = <<>> THEN rows
    ELSE _save_to_database(InsertOrReplace(rows, Head(data)), Tail(data))

\* ORDER BY timestamp: stable over rowid order; the place of a row is one
\* more than the number of rows that come before it
OrderByTimestamp(rows) ==
    LET n == Len(rows)
        placed == {<<1 + Cardinality({j \in 1..n :
                            \/ rows[j].timestamp < rows[i].timestamp
                            \/ rows[j].timestamp = rows[i].timestamp /\ j < i}), i>> :
                      i \in 1..n}
    IN  [p \in 1..n |-> rows[(CHOOSE q \in placed : q[1] = p)[2]]]

\* the WHERE clause of _get_local_data
InRange(r, symbol, interval, start_time, end_time) ==
    /\ r.symbol = symbol
    /\ r.interval = interval
    /\ r.timestamp >= start_time
    /\ r.timestamp <= end_time

\* HistoricalDataManager._get_local_data: the selected rows of every source,
\* ordered by timestamp, as dicts without symbol, interval and source. The
\* code logs a failed read and returns []; reads here always succeed.
_get_local_data(rows, symbol, interval, start_time, end_time) ==
    LET sel == SelectSeq(rows, LAMBDA r : InRange(r, symbol, interval, start_time, end_time))
        ord == OrderByTimestamp(sel)
    IN  [i \in 1..Len(ord) |-> [timestamp |-> ord[i].timestamp, close |-> ord[i].close]]

\* HistoricalDataManager._is_data_sufficient: len(data) >= expected_points * 0.8
_is_data_sufficient(data, start_time, end_time, interval) ==
    IF data = <<>> THEN FALSE
    ELSE LET interval_seconds == _interval_to_seconds(interval)
             expected_points == (end_time - start_time) \div interval_seconds
         IN  Len(data) * 10 >= expected_points * 8

\* HistoricalDataManager._parse_period: the start of the window, or the
\* ValueError of an unsupported period
_parse_period(period, end_time) ==
    IF period \notin DOMAIN period_map
    THEN [ok |-> FALSE, start |-> 0]
    ELSE [ok |-> TRUE, start |-> end_time - period_map[period]]

\* -------------------------------------------------------------- DataSource
\* what the network can answer to one HTTP request: an aiohttp.ClientError
\* (client_error), another failure (timeout, non-200 status, error payload,
\* unparsable body) or a body with n candles
NetOutcomes ==
    {[kind |-> "client_error", n |-> 0], [kind |-> "fail", n |-> 0]}
        \cup [kind : {"ok"}, n : 0..MaxBars]

Min(a, b) == IF a <= b THEN a ELSE b

\* the bar the source asks its provider for: self.interval_map.get(interval,
\* '1h') of BinanceDataSource and OKXDataSource (OKX spells its bars 1H, 4H,
\* 1D, 1W); CoinGecko sends no bar and is asked for 1d only
SourceBar(source, interval) ==
    IF interval \in DOMAIN interval_map THEN interval ELSE "1h"

\* the candles a provider that honours [start_time, end_time] sends for a
\* request: the n most recent bars of the grid of the bar asked for,
\* ascending, each parsed into a dict with symbol, interval and source
ParseCandles(source, symbol, interval, start_time, end_time, n, price) ==
    LET isec == interval_map[SourceBar(source, interval)]
        last == (end_time \div isec) * isec
        inwin == IF last < start_time THEN 0 ELSE ((last - start_time) \div isec) + 1
        m == Min(n, inwin)
    IN  [i \in 1..m |->
            [timestamp |-> last - (m - i) * isec, close |-> price,
             symbol |-> symbol, interval |-> interval, source |-> source]]

\* BinanceDataSource.fetch_data / OKXDataSource.fetch_data: one HTTP request.
\* retry_decorator wraps the coroutine function with a plain def, so the call
\* it guards only creates the coroutine: each awaited fetch is one attempt.
\* exc is what the call raises: except aiohttp.ClientError builds
\* APIError(..., source=...), a keyword APIError does not take (TypeError);
\* except Exception raises HistoricalDataError.
ExchangeFetch(source, symbol, interval, start_time, end_time, net, price) ==
    IF net.kind = "client_error"
    THEN [kind |-> "error", exc |-> "TypeError", data |-> <<>>, http |-> TRUE,
          msg |-> "network_request_failed"]
    ELSE IF net.kind = "fail"
    THEN [kind |-> "error", exc |-> "HistoricalDataError", data |-> <<>>, http |-> TRUE,
          msg |-> "fetch_failed"]
    ELSE [kind |-> "ok", exc |-> "none", http |-> TRUE, msg |-> "none",
          data |-> ParseCandles(source, symbol, interval, start_time, end_time,
                                net.n, price)]

\* CoinGeckoDataSource.fetch_data: rejects unknown tickers and every interval
\* but 1d before any request; msg is what the message of the error says
CoinGeckoFetch(source, symbol, interval, start_time, end_time, net, price) ==
    IF symbol \notin coin_id_map
    THEN [kind |-> "error", exc |-> "HistoricalDataError", data |-> <<>>, http |-> FALSE,
          msg |-> "unsupported_symbol"]
    ELSE IF interval \notin {"1d"}
    THEN [kind |-> "error", exc |-> "HistoricalDataError", data |-> <<>>, http |-> FALSE,
          msg |-> "unsupported_interval"]
    ELSE ExchangeFetch(source, symbol, interval, start_time, end_time, net, price)

\* source.fetch_data, by source
fetch_data(source, symbol, interval, start_time, end_time, net, price) ==
    IF source = "CoinGecko"
    THEN CoinGeckoFetch(source, symbol, interval, start_time, end_time, net, price)
    ELSE ExchangeFetch(source, symbol, interval, start_time, end_time, net, price)

\* ------------------------------------------------- HistoricalDataManager
\* except Exception in get_data: whatever was raised reaches the caller as a
\* HistoricalDataError carrying the symbol; cause records what was raised
WrapError(symbol, cause) ==
    [type |-> "HistoricalDataError", symbol |-> symbol, cause |-> cause]

\* StartCall with the force_refresh test inverted
StartCallInverted(symbol, interval, period, force_refresh) ==
    LET req == [symbol |-> symbol, interval |-> interval, period |-> period,
                force_refresh |-> force_refresh]
        p == _parse_period(period, now)
        win == [start |-> p.start, end |-> now]
        base == [NoCall EXCEPT !.req = req]
        local_data == _get_local_data(store, symbol, interval, win.start, win.end)
    IN  IF ~p.ok
        THEN [base EXCEPT !.pc = "raised", !.error = WrapError(symbol, "ValueError")]
        ELSE IF ~force_refresh
        THEN [base EXCEPT !.pc = "fetching", !.win = win, !.idx = 1]
        ELSE IF _is_data_sufficient(local_data, win.start, win.end, interval)
        THEN [base EXCEPT !.pc = "returned", !.win = win, !.log = <<"read">>,
                          !.result = local_data, !.served = "cache"]
        ELSE [base EXCEPT !.pc = "fetching", !.win = win, !.idx = 1,
                          !.log = <<"read">>]

\* get_data up to its first await, as the call it leaves: the window, and
\* unless force_refresh the cache read and the cache hit
StartCall(symbol, interval, period, force_refresh) ==
    LET req == [symbol |-> symbol, interval |-> interval, period |-> period,
                force_refresh |-> force_refresh]
        p == _parse_period(period, now)
        win == [start |-> p.start, end |-> now]
        base == [NoCall EXCEPT !.req = req]
        local_data == _get_local_data(store, symbol, interval, win.start, win.end)
    IN  IF ~p.ok
        THEN [base EXCEPT !.pc = "raised", !.error = WrapError(symbol, "ValueError")]
        ELSE IF force_refresh
        THEN [base EXCEPT !.pc = "fetching", !.win = win, !.idx = 1]
        ELSE IF _is_data_sufficient(local_data, win.start, win.end, interval)
        THEN [base EXCEPT !.pc = "returned", !.win = win, !.log = <<"read">>,
                          !.result = local_data, !.served = "cache"]
        ELSE [base EXCEPT !.pc = "fetching", !.win = win, !.idx = 1,
                          !.log = <<"read">>]

\* what a caller keeps of a finished call: request, window and what came back
Outcome(c) ==
    [c EXCEPT !.idx = 0, !.api_data = <<>>, !.log = <<>>, !.error = NoError]

\* get_data that deletes the stored candles it serves from the cache
get_dataEvicting(t, symbol, interval, period, force_refresh) ==
    /\ t \in active
    /\ call[t].pc \in {"idle", "returned", "raised"}
    /\ calls < MaxCalls
    /\ calls' = calls + 1
    /\ prev' = [prev EXCEPT ![t] = Outcome(call[t])]
    /\ call' = [call EXCEPT ![t] = StartCall(symbol, interval, period, force_refresh)]
    /\ store' = IF call'[t].served = "cache"
                THEN SelectSeq(store, LAMBDA r :
                        ~InRange(r, symbol, interval, call'[t].win.start, call'[t].win.end))
                ELSE store
    /\ UNCHANGED <<now, ticks, active, scope, an, ta, src>>

\* a caller awaits get_data
get_data(t, symbol, interval, period, force_refresh) ==
    /\ t \in active
    /\ call[t].pc \in {"idle", "returned", "raised"}
    /\ calls < MaxCalls
    /\ calls' = calls + 1
    /\ prev' = [prev EXCEPT ![t] = Outcome(call[t])]
    /\ call' = [call EXCEPT ![t] = StartCall(symbol, interval, period, force_refresh)]
    /\ UNCHANGED <<now, ticks, store, active, scope, an, ta, src>>

\* FallbackRead that serves the local data only when it is sufficient
FallbackReadSufficient(c) ==
    LET local_data == _get_local_data(store, c.req.symbol, c.req.interval,
                                      c.win.start, c.win.end)
    IN  IF _is_data_sufficient(local_data, c.win.start, c.win.end, c.req.interval)
        THEN local_data ELSE <<>>

\* the second _get_local_data of get_data: same window as the first
FallbackRead(c) ==
    _get_local_data(store, c.req.symbol, c.req.interval, c.win.start, c.win.end)

\* FetchStep whose loop catches HistoricalDataError only: another exception
\* of a source ends the call
FetchStepPropagating(t, net, db_ok) ==
    /\ call[t].pc = "fetching"
    /\ LET c == call[t]
           source == data_sources[c.idx]
           r == fetch_data(source, c.req.symbol, c.req.interval,
                           c.win.start, c.win.end, net, calls)
           log1 == c.log \o <<source>> \o (IF r.http THEN <<"http">> ELSE <<>>)
           api_data == r.data
           local_data == FallbackRead(c)
       IN  IF r.kind = "ok" /\ api_data # <<>>
           THEN IF db_ok
                THEN /\ store' = _save_to_database(store, api_data)
                     /\ call' = [call EXCEPT ![t] =
                           [c EXCEPT !.pc = "returned", !.result = api_data,
                                     !.api_data = api_data, !.served = "api",
                                     !.log = Append(log1, "write")]]
                ELSE /\ store' = store
                     /\ call' = [call EXCEPT ![t] =
                           [c EXCEPT !.pc = "raised",
                                     !.error = WrapError(c.req.symbol, "DatabaseError"),
                                     !.log = Append(log1, "write_failed")]]
           ELSE IF r.exc = "TypeError"
           THEN /\ store' = store
                /\ call' = [call EXCEPT ![t] =
                      [c EXCEPT !.pc = "raised",
                                !.error = WrapError(c.req.symbol, "TypeError"),
                                !.log = log1]]
           ELSE IF c.idx < Len(data_sources)
           THEN /\ store' = store
                /\ call' = [call EXCEPT ![t] = [c EXCEPT !.idx = c.idx + 1, !.log = log1]]
           ELSE /\ store' = store
                /\ call' = [call EXCEPT ![t] =
                      IF local_data # <<>>
                      THEN [c EXCEPT !.pc = "returned", !.result = local_data,
                                     !.served = "stale", !.log = Append(log1, "read")]
                      ELSE [c EXCEPT !.pc = "raised",
                                     !.error = WrapError(c.req.symbol, "NoData"),
                                     !.log = Append(log1, "read")]]
    /\ UNCHANGED <<now, ticks, calls, active, scope, prev, an, ta, src>>

\* FetchStep whose loop does not leave the last source when it raised or
\* came back empty
FetchStepStalling(t, net, db_ok) ==
    /\ call[t].pc = "fetching"
    /\ LET c == call[t]
           source == data_sources[c.idx]
           r == fetch_data(source, c.req.symbol, c.req.interval,
                           c.win.start, c.win.end, net, calls)
           log1 == c.log \o <<source>> \o (IF r.http THEN <<"http">> ELSE <<>>)
           api_data == r.data
       IN  IF r.kind = "ok" /\ api_data # <<>>
           THEN IF db_ok
                THEN /\ store' = _save_to_database(store, api_data)
                     /\ call' = [call EXCEPT ![t] =
                           [c EXCEPT !.pc = "returned", !.result = api_data,
                                     !.api_data = api_data, !.served = "api",
                                     !.log = Append(log1, "write")]]
                ELSE /\ store' = store
                     /\ call' = [call EXCEPT ![t] =
                           [c EXCEPT !.pc = "raised",
                                     !.error = WrapError(c.req.symbol, "DatabaseError"),
                                     !.log = Append(log1, "write_failed")]]
           ELSE IF c.idx < Len(data_sources)
           THEN /\ store' = store
                /\ call' = [call EXCEPT ![t] = [c EXCEPT !.idx = c.idx + 1, !.log = log1]]
           ELSE /\ store' = store
                /\ call' = call
    /\ UNCHANGED <<now, ticks, calls, active, scope, prev, an, ta, src>>

\* _fetch_from_apis resumed from await source.fetch_data, and the rest of
\* get_data when the loop ends: save and return the fetched data, or fall
\* back to the local data, or raise
FetchStep(t, net, db_ok) ==
    /\ call[t].pc = "fetching"
    /\ LET c == call[t]
           source == data_sources[c.idx]
           r == fetch_data(source, c.req.symbol, c.req.interval,
                           c.win.start, c.win.end, net, calls)
           log1 == c.log \o <<source>> \o (IF r.http THEN <<"http">> ELSE <<>>)
           api_data == r.data
           local_data == FallbackRead(c)
       IN  IF r.kind = "ok" /\ api_data # <<>>
           THEN IF db_ok
                THEN /\ store' = _save_to_database(store, api_data)
                     /\ call' = [call EXCEPT ![t] =
                           [c EXCEPT !.pc = "returned", !.result = api_data,
                                     !.api_data = api_data, !.served = "api",
                                     !.log = Append(log1, "write")]]
                ELSE /\ store' = store
                     /\ call' = [call EXCEPT ![t] =
                           [c EXCEPT !.pc = "raised",
                                     !.error = WrapError(c.req.symbol, "DatabaseError"),
                                     !.log = Append(log1, "write_failed")]]
           ELSE IF c.idx < Len(data_sources)
           THEN /\ store' = store
                /\ call' = [call EXCEPT ![t] = [c EXCEPT !.idx = c.idx + 1, !.log = log1]]
           ELSE /\ store' = store
                /\ call' = [call EXCEPT ![t] =
                      IF local_data # <<>>
                      THEN [c EXCEPT !.pc = "returned", !.result = local_data,
                                     !.served = "stale", !.log = Append(log1, "read")]
                      ELSE [c EXCEPT !.pc = "raised",
                                     !.error = WrapError(c.req.symbol, "NoData"),
                                     !.log = Append(log1, "read")]]
    /\ UNCHANGED <<now, ticks, calls, active, scope, prev, an, ta, src>>

\* the wall clock advances by a day; the clock is read only where get_data
\* starts, so it moves only while some caller is not suspended in a fetch
Tick ==
    /\ ticks < MaxTicks
    /\ \E t \in active : call[t].pc # "fetching"
    /\ ticks' = ticks + 1
    /\ now' = now + TickSeconds
    /\ UNCHANGED <<store, calls, active, scope, call, prev, an, ta, src>>

\* the series an earlier run fetched from source i for the scope in the 30
\* days before StartTime, n candles long
PriorSeries(sc, i, n) ==
    fetch_data(data_sources[i], sc.symbol, sc.interval,
               StartTime - period_map["30d"], StartTime, [kind |-> "ok", n |-> n], 0).data

RECURSIVE PriorStores(_, _)
\* the database files earlier runs leave behind: each of the first k
\* sources has saved a series of MaxBars candles, or nothing
PriorStores(sc, k) ==
    IF k = 0 THEN {<<>>}
    ELSE {_save_to_database(rows, PriorSeries(sc, k, n)) :
             rows \in PriorStores(sc, k - 1), n \in {0, MaxBars}}

\* HistoricalDataManager.__init__: the database file is opened as earlier
\* runs left it (CREATE TABLE IF NOT EXISTS)
Init ==
    /\ now = StartTime
    /\ ticks = 0
    /\ scope \in [symbol : Symbols, interval : Intervals, period : ValidPeriods]
    /\ store \in PriorStores(scope, Len(data_sources))
    /\ calls = 0
    /\ active = {1}
    /\ call = [t \in Tasks |-> NoCall]
    /\ prev = [t \in Tasks |-> NoCall]
    /\ an = NoAnalysis
    /\ ta = NoCalculation
    /\ src = NoSource

Next ==
    \/ \E t \in Tasks, period \in {scope.period, BadPeriod}, force_refresh \in BOOLEAN :
          get_data(t, scope.symbol, scope.interval, period, force_refresh)
    \/ \E t \in Tasks, net \in NetOutcomes, db_ok \in BOOLEAN :
          FetchStep(t, net, db_ok)
    \/ Tick

Spec == Init /\ [][Next]_vars

\* every awaited source.fetch_data ends: session.get carries timeout=30,
\* the sleep of _rate_limit_check is finite and the wrapper of
\* retry_decorator does not loop, so the event loop resumes the caller
Resume == \E t \in Tasks, net \in NetOutcomes, db_ok \in BOOLEAN : FetchStep(t, net, db_ok)

\* HistoricalDataManager.__init__ on a new database file, and callers that
\* ask for the last week
InitLive == Init /\ store = <<>> /\ scope.period = "7d"

SpecLive == InitLive /\ [][Next]_vars /\ WF_vars(Resume)

\* ------------------------------------------------- two concurrent callers
\* two tasks of one event loop share the manager (api.py awaits
\* manager.get_data in each request handler) on a new database file
InitConcurrent ==
    /\ now = StartTime
    /\ ticks = 0
    /\ scope \in [symbol : Symbols, interval : Intervals, period : ValidPeriods]
    /\ store = <<>>
    /\ calls = 0
    /\ active = Tasks
    /\ call = [t \in Tasks |-> NoCall]
    /\ prev = [t \in Tasks |-> NoCall]
    /\ an = NoAnalysis
    /\ ta = NoCalculation
    /\ src = NoSource

SpecConcurrent == InitConcurrent /\ [][Next]_vars

\* the stores a get_data call with the request and window of c can leave
\* behind when nothing else runs between its cache read and its write: rows
\* itself when the period is rejected, the cache is hit, every source fails
\* or the write fails, else rows with the candles of one source saved
SerialWrites(rows, c) ==
    LET local_data == _get_local_data(rows, c.req.symbol, c.req.interval,
                                      c.win.start, c.win.end)
    IN  IF ~_parse_period(c.req.period, c.win.end).ok
        THEN {rows}
        ELSE IF /\ ~c.req.force_refresh
                /\ _is_data_sufficient(local_data, c.win.start, c.win.end, c.req.interval)
        THEN {rows}
        ELSE {rows} \cup
             {_save_to_database(rows,
                  fetch_data(data_sources[i], c.req.symbol, c.req.interval,
                             c.win.start, c.win.end, [kind |-> "ok", n |-> n], price).data) :
                  i \in 1..Len(data_sources), n \in 1..MaxBars, price \in 0..MaxCalls}

\* the stores left behind by the call first run to its end on a new
\* database file and the call second run after it
RunSerially(first, second) ==
    UNION {SerialWrites(rows, second) : rows \in SerialWrites(<<>>, first)}

\* ------------------------------------------------ the sufficiency check
\* a database in which an earlier run saved the n most recent Binance
\* candles of the window, for every interval of interval_map and every
\* period of period_map
InitSufficient ==
    /\ now = StartTime
    /\ ticks = 0
    /\ scope \in [symbol : {"BTC"}, interval : DOMAIN interval_map,
                  period : DOMAIN period_map]
    /\ store \in {_save_to_database(<<>>,
                      ParseCandles("Binance", scope.symbol, scope.interval,
                                   StartTime - period_map[scope.period], StartTime,
                                   n, 0)) : n \in 0..MaxSeries}
    /\ calls = 0
    /\ active = {1}
    /\ call = [t \in Tasks |-> NoCall]
    /\ prev = [t \in Tasks |-> NoCall]
    /\ an = NoAnalysis
    /\ ta = NoCalculation
    /\ src = NoSource

\* get_data without force_refresh, up to the sufficiency check and the
\* return or the await that follows it
NextSufficient ==
    \E t \in Tasks : get_data(t, scope.symbol, scope.interval, scope.period, FALSE)

SpecSufficient == InitSufficient /\ [][NextSufficient]_vars

\* ------------------------------------------------- one DataSource instance
\* DataSource.__init__(name, base_url, rate_limit): requests per minute
rate_limit ==
    [s \in {"Binance", "OKX", "CoinGecko"} |->
        CASE s = "Binance" -> 1200
          [] s = "OKX" -> 600
          [] s = "CoinGecko" -> 50]

\* @retry_decorator(max_attempts=3, delay=...) on fetch_data, in seconds
retry_delay ==
    [s \in {"Binance", "OKX", "CoinGecko"} |->
        CASE s = "Binance" -> 1
          [] s = "OKX" -> 1
          [] s = "CoinGecko" -> 2]
max_attempts == 3
\* retry_decorator: backoff: float = 2.0
backoff == 2

RECURSIVE RetryLoop(_, _, _, _, _, _)
\* the for loop of wrapper from attempt on: return func(*args, **kwargs), or
\* after an exception sleep delay * backoff ** attempt unless the attempt was
\* the last; raises[k] says whether the k-th call of func raises. The result
\* tells how often func was called, what time.sleep was given, and whether
\* the wrapper raised last_exception
RetryLoop(attempts, delay, factor, raises, attempt, slept) ==
    IF attempt >= attempts
    THEN [attempts |-> attempts, slept |-> slept, raised |-> TRUE]
    ELSE IF ~raises[attempt + 1]
    THEN [attempts |-> attempt + 1, slept |-> slept, raised |-> FALSE]
    ELSE IF attempt < attempts - 1
    THEN RetryLoop(attempts, delay, factor, raises, attempt + 1,
                   Append(slept, delay * factor ^ attempt))
    ELSE RetryLoop(attempts, delay, factor, raises, attempt + 1, slept)

\* retry_decorator whose wrapper finds every call of func failed
retry_decoratorExhausting(attempts, delay, factor, raises) ==
    RetryLoop(attempts, delay, factor, [k \in 1..attempts |-> TRUE], 0, <<>>)

\* utils.retry_decorator: the wrapper it puts around func
retry_decorator(attempts, delay, factor, raises) ==
    RetryLoop(attempts, delay, factor, raises, 0, <<>>)

\* func is the coroutine function fetch_data and wrapper a plain def: the
\* call func(*args, **kwargs) builds a coroutine object and runs none of the
\* body, so it raises in no attempt
CoroutineCall == [k \in 1..max_attempts |-> FALSE]

\* the clock of a DataSource starts further from last_request_time = 0 than
\* any min_interval (milliseconds)
StartClock == 100000
\* the window every fetch_data call of the instance asks for: the last day
WindowEnd == StartTime
WindowStart == StartTime - period_map["1d"]
\* the intervals fetch_data is called with: a supported one, and one no
\* interval_map holds (the API passes its timeframe parameter on unchecked)
SourceIntervals == {"1d", "30m"}

\* min_interval = 60 / self.rate_limit, in milliseconds
min_interval(source) == 60000 \div rate_limit[source]

\* fetch_data from the return of _rate_limit_check to its first await: the
\* checks of CoinGeckoDataSource, which raise, or the request
Request(s, t, f) ==
    LET pre == fetch_data(s.name, f.symbol, f.interval, WindowStart, WindowEnd,
                          [kind |-> "fail", n |-> 0], 0)
    IN  IF ~pre.http
        THEN [s EXCEPT !.fetch[t] = [f EXCEPT !.pc = "raised", !.exc = pre.exc,
                                              !.msg = pre.msg]]
        ELSE [s EXCEPT !.fetch[t] = [f EXCEPT !.pc = "requesting",
                                              !.http = f.http + 1,
                                              !.bar = SourceBar(s.name, f.interval)],
                       !.issued = Append(s.issued, s.last_request_time)]

\* DataSource._rate_limit_check up to its await: too soon after
\* last_request_time the caller sleeps, otherwise last_request_time is set
\* and fetch_data goes on without suspending
_rate_limit_check(s, t, f) ==
    LET current_time == s.time
        time_since_last == current_time - s.last_request_time
    IN  IF time_since_last < min_interval(s.name)
        THEN [s EXCEPT !.fetch[t] =
                [f EXCEPT !.pc = "sleeping",
                          !.wake = current_time + (min_interval(s.name) - time_since_last)]]
        ELSE Request([s EXCEPT !.last_request_time = s.time], t, f)

\* a caller awaits source.fetch_data(symbol, interval, start, end): the
\* wrapper of retry_decorator runs and hands back what func returned, the
\* coroutine, which the caller then runs up to its first suspension
Fetch(t, symbol, interval) ==
    /\ src.name # ""
    /\ src.fetch[t].pc \in {"idle", "returned", "raised"}
    /\ src.fetches < MaxFetches
    /\ LET w == retry_decorator(max_attempts, retry_delay[src.name], backoff,
                                CoroutineCall)
           f == [NoFetch EXCEPT !.symbol = symbol, !.interval = interval,
                                !.attempts = w.attempts, !.slept = w.slept]
           s == [src EXCEPT !.fetches = src.fetches + 1]
       IN  src' = IF w.raised
                  THEN [s EXCEPT !.fetch[t] = [f EXCEPT !.pc = "raised",
                                                        !.exc = "Exception"]]
                  ELSE _rate_limit_check(s, t, f)
    /\ UNCHANGED <<now, ticks, store, calls, active, scope, call, prev, an, ta>>

\* asyncio.sleep(sleep_time) returns, at its deadline or later, and
\* _rate_limit_check sets last_request_time
Wake(t) ==
    /\ src.fetch[t].pc = "sleeping"
    /\ src.time >= src.fetch[t].wake
    /\ src' = Request([src EXCEPT !.last_request_time = src.time], t, src.fetch[t])
    /\ UNCHANGED <<now, ticks, store, calls, active, scope, call, prev, an, ta>>

\* session.get(..., timeout=30) and response.json() end: the candles, or the
\* exception fetch_data raises to its awaiter
Respond(t, net) ==
    /\ src.fetch[t].pc = "requesting"
    /\ LET f == src.fetch[t]
           r == fetch_data(src.name, f.symbol, f.interval, WindowStart, WindowEnd,
                           net, src.fetches)
       IN  src' = [src EXCEPT !.fetch[t] =
                      IF r.kind = "ok"
                      THEN [f EXCEPT !.pc = "returned", !.data = r.data]
                      ELSE [f EXCEPT !.pc = "raised", !.exc = r.exc, !.msg = r.msg]]
    /\ UNCHANGED <<now, ticks, store, calls, active, scope, call, prev, an, ta>>

\* time passes: half a min_interval, or a whole one
Advance(d) ==
    /\ src.name # ""
    /\ src.advances < MaxAdvances
    /\ src' = [src EXCEPT !.time = src.time + d, !.advances = src.advances + 1]
    /\ UNCHANGED <<now, ticks, store, calls, active, scope, call, prev, an, ta>>

\* one of the three sources as HistoricalDataManager.__init__ builds it
InitSource ==
    /\ now = StartTime
    /\ ticks = 0
    /\ scope = [symbol |-> "BTC", interval |-> "1d", period |-> "1d"]
    /\ store = <<>>
    /\ calls = 0
    /\ active = {}
    /\ call = [t \in Tasks |-> NoCall]
    /\ prev = [t \in Tasks |-> NoCall]
    /\ an = NoAnalysis
    /\ ta = NoCalculation
    /\ src \in {[NoSource EXCEPT !.name = data_sources[i], !.time = StartClock] :
                   i \in 1..Len(data_sources)}

NextSource ==
    \/ \E t \in Tasks, symbol \in Symbols, interval \in SourceIntervals :
          Fetch(t, symbol, interval)
    \/ \E t \in Tasks : Wake(t)
    \/ \E t \in Tasks, net \in NetOutcomes : Respond(t, net)
    \/ \E d \in {min_interval(src.name) \div 2, min_interval(src.name)} : Advance(d)

SpecSource == InitSource /\ [][NextSource]_vars

\* ------------------------------------------------------ TechnicalAnalyzer
\* TechnicalAnalyzer._validate_parameters: valid_timeframes, valid_periods
valid_timeframes == {"1m", "5m", "15m", "1h", "4h", "1d", "1w"}
valid_periods == {"1d", "7d", "30d", "90d"}
\* analyze: len(historical_data) < 20
MinDataPoints == 20
\* _get_historical_data: _generate_mock_data(symbol, 100, current_price)
MockCount == 100

\* _validate_parameters without the timeframe test
ValidateWithoutTimeframe(symbol, timeframe, period) ==
    IF symbol = "" THEN "symbol"
    ELSE IF period \notin valid_periods THEN "period"
    ELSE "ok"

\* TechnicalAnalyzer._validate_parameters: the field of the ValidationError
\* it raises, or "ok"
_validate_parameters(symbol, timeframe, period) ==
    IF symbol = "" THEN "symbol"
    ELSE IF timeframe \notin valid_timeframes THEN "timeframe"
    ELSE IF period \notin valid_periods THEN "period"
    ELSE "ok"

\* AnalyzeData that rejects exactly 20 candles too
AnalyzeDataOffByOne(a, n) ==
    IF n = 0 \/ n <= MinDataPoints
    THEN [a EXCEPT !.pc = "raised", !.data = n, !.error = "TechnicalAnalysisError"]
    ELSE [a EXCEPT !.pc = "returned", !.data = n, !.data_points_used = n]

\* analyze from the historical data on: fewer than 20 candles raise
\* TechnicalAnalysisError, otherwise the result is built over all of them
AnalyzeData(a, n) ==
    IF n = 0 \/ n < MinDataPoints
    THEN [a EXCEPT !.pc = "raised", !.data = n, !.error = "TechnicalAnalysisError"]
    ELSE [a EXCEPT !.pc = "returned", !.data = n, !.data_points_used = n]

\* analyze up to await manager.get_data; an analyzer without a manager
\* works on 100 mock candles and does not suspend
analyze(symbol, timeframe, period) ==
    /\ an.pc \in {"idle", "returned", "raised"}
    /\ LET v == _validate_parameters(symbol, timeframe, period)
           base == [NoAnalysis EXCEPT !.manager = an.manager, !.symbol = symbol,
                                      !.timeframe = timeframe, !.period = period]
       IN  an' = IF v # "ok"
                 THEN [base EXCEPT !.pc = "raised", !.error = "ValidationError",
                                   !.field = v]
                 ELSE IF ~an.manager
                 THEN AnalyzeData(base, MockCount)
                 ELSE [base EXCEPT !.pc = "waiting", !.mgr_calls = 1]
    /\ UNCHANGED <<mgrvars, ta>>

\* what manager.get_data does for analyze: it raises, or returns n candles
ManagerOutcomes ==
    {[called |-> TRUE, raised |-> TRUE, n |-> 0]} \cup
    [called : {TRUE}, raised : {FALSE}, n : 0..MaxCandles]

\* _get_historical_data resumed from await manager.get_data (an exception
\* is replaced by 100 mock candles), and the rest of analyze
AnalyzeResume(out) ==
    /\ an.pc = "waiting"
    /\ LET historical_data == IF out.raised THEN MockCount ELSE out.n
       IN  an' = AnalyzeData([an EXCEPT !.mgr = out], historical_data)
    /\ UNCHANGED <<mgrvars, ta>>

\* TechnicalAnalyzer.__init__, with or without a historical data manager
InitAnalyze ==
    /\ now = StartTime
    /\ ticks = 0
    /\ scope = [symbol |-> "BTC", interval |-> "1d", period |-> "1d"]
    /\ store = <<>>
    /\ calls = 0
    /\ active = {}
    /\ call = [t \in Tasks |-> NoCall]
    /\ prev = [t \in Tasks |-> NoCall]
    /\ an \in {[NoAnalysis EXCEPT !.manager = m] : m \in BOOLEAN}
    /\ ta = NoCalculation
    /\ src = NoSource

NextAnalyze ==
    \/ \E symbol \in {"", "BTC"}, timeframe \in valid_timeframes \cup {"2h"},
          period \in valid_periods \cup {BadPeriod} :
          analyze(symbol, timeframe, period)
    \/ \E out \in ManagerOutcomes : AnalyzeResume(out)

SpecAnalyze == InitAnalyze /\ [][NextAnalyze]_vars

\* ------------------------------------------------------- floating point
\* A float is an extended rational n/d with d >= 0; d = 0 stands for +inf
\* (n > 0), -inf (n < 0) and NaN (n = 0), with the IEEE 754 rules for them.
\* Rounding and the sign of zero are not modelled.
Float(n, d) == [n |-> n, d |-> d]
Num(k) == Float(k, 1)
NaN == Float(0, 0)
IsNaN(x) == x.n = 0 /\ x.d = 0
Sgn(k) == IF k > 0 THEN 1 ELSE IF k < 0 THEN -1 ELSE 0
Abs(k) == IF k < 0 THEN -k ELSE k
FNeg(x) == Float(-x.n, x.d)
FAdd(x, y) ==
    IF x.d = 0 /\ y.d = 0
    THEN IF Sgn(x.n) = Sgn(y.n) THEN x ELSE NaN
    ELSE Float(x.n * y.d + y.n * x.d, x.d * y.d)
FSub(x, y) == FAdd(x, FNeg(y))
FMul(x, y) == Float(x.n * y.n, x.d * y.d)
FDiv(x, y) == Float(x.n * y.d * (IF y.n < 0 THEN -1 ELSE 1), x.d * Abs(y.n))
\* x > y and x < y of Python: False whenever an operand is NaN
FGt(x, y) ==
    /\ ~IsNaN(x)
    /\ ~IsNaN(y)
    /\ IF x.d = 0 /\ y.d = 0 THEN x.n > y.n ELSE x.n * y.d > y.n * x.d
FLt(x, y) == FGt(y, x)
\* a <= x <= b of Python
FBetween(a, x, b) == ~IsNaN(x) /\ ~FGt(a, x) /\ ~FGt(x, b)

\* ------------------------------------------------------- IndicatorEngine
\* resolution of the fixed-point arithmetic of the exponential averages
Scale == 1000
\* most free closing-price moves at the end of a candle series
MaxTail == 3

\* IndicatorType, in the order of TechnicalAnalyzer.supported_indicators
IndicatorType ==
    <<"rsi", "macd", "bollinger_bands", "sma", "ema", "stochastic",
      "williams_r", "cci", "momentum">>

\* TechnicalAnalyzer.default_params
default_params ==
    [rsi_period |-> 14, macd_fast |-> 12, macd_slow |-> 26, macd_signal |-> 9,
     bb_period |-> 20, sma_periods |-> <<20, 50>>, ema_periods |-> <<12, 26>>,
     stoch_k |-> 14, stoch_d |-> 3, williams_period |-> 14, cci_period |-> 20,
     momentum_period |-> 10]

\* a period no series of the model is long enough for
LongPeriod == 10 * MockCount

\* params = {**default_params, **kwargs}, for the kwargs that override the
\* window of each indicator in overrides: a period longer than the series,
\* and for sma and ema a list holding the period -1 (rolling and ewm raise
\* ValueError for it)
Params(overrides) ==
    [rsi_period |-> IF "rsi" \in overrides THEN LongPeriod ELSE default_params.rsi_period,
     macd_fast |-> default_params.macd_fast,
     macd_slow |-> IF "macd" \in overrides THEN LongPeriod ELSE default_params.macd_slow,
     macd_signal |-> default_params.macd_signal,
     bb_period |-> IF "bollinger_bands" \in overrides THEN LongPeriod
                   ELSE default_params.bb_period,
     sma_periods |-> IF "sma" \in overrides THEN <<-1>> ELSE default_params.sma_periods,
     ema_periods |-> IF "ema" \in overrides THEN <<-1>> ELSE default_params.ema_periods,
     stoch_k |-> IF "stochastic" \in overrides THEN LongPeriod ELSE default_params.stoch_k,
     stoch_d |-> default_params.stoch_d,
     williams_period |-> IF "williams_r" \in overrides THEN LongPeriod
                         ELSE default_params.williams_period,
     cci_period |-> IF "cci" \in overrides THEN LongPeriod ELSE default_params.cci_period,
     momentum_period |-> IF "momentum" \in overrides THEN LongPeriod
                         ELSE default_params.momentum_period]

\* what a calculation method does: it returns a value or raises
Return(value) == [ok |-> TRUE, value |-> value, exc |-> "none"]
Raise(exc) == [ok |-> FALSE, value |-> None, exc |-> exc, message |-> None]
\* raise TechnicalAnalysisError(f"...计算需要至少{minimum}个数据点"): the message
\* names the indicator (RSI, MACD, CCI, and in Chinese the Bollinger Bands,
\* the stochastic, Williams and momentum indicators) and the number of data
\* points needed; no indicator= is passed, so details['indicator'] is None
Needs(name, minimum) ==
    [ok |-> FALSE, value |-> None, exc |-> "TechnicalAnalysisError",
     message |-> [names |-> name, minimum |-> minimum],
     details |-> [indicator |-> None, symbol |-> None]]
\* a value the model does not compute (a standard deviation, a mean deviation)
Uncomputed == [uncomputed |-> TRUE]

RECURSIVE SumOver(_, _, _, _)
\* sum of col[i] for i in lo..hi
SumOver(col, lo, hi, acc) ==
    IF lo > hi THEN acc ELSE SumOver(col, lo + 1, hi, acc + col[lo])

MaxOf(S) == CHOOSE x \in S : \A y \in S : y <= x
MinOf(S) == CHOOSE x \in S : \A y \in S : x <= y

\* series.rolling(window).mean().iloc[-1] of an integer column
RollingMean(col, len, window) ==
    Float(SumOver(col, len - window + 1, len, 0), window)

\* _calculate_rsi without the length check: the rolling means of a series
\* shorter than the window are NaN
_calculate_rsiUnchecked(df, params) ==
    LET period == params.rsi_period
        len == Len(df)
        delta == [i \in 2..len |-> df[i].close - df[i - 1].close]
        up == [i \in 2..len |-> IF delta[i] > 0 THEN delta[i] ELSE 0]
        down == [i \in 2..len |-> IF delta[i] < 0 THEN -delta[i] ELSE 0]
    IN  IF len < period + 1 THEN Return(NaN)
        ELSE LET gain == RollingMean(up, len, period)
                 loss == RollingMean(down, len, period)
                 rs == FDiv(gain, loss)
                 rsi == FSub(Num(100), FDiv(Num(100), FAdd(Num(1), rs)))
             IN  Return(rsi)

\* TechnicalAnalyzer._calculate_rsi
_calculate_rsi(df, params) ==
    LET period == params.rsi_period
        len == Len(df)
        delta == [i \in 2..len |-> df[i].close - df[i - 1].close]
        up == [i \in 2..len |-> IF delta[i] > 0 THEN delta[i] ELSE 0]
        down == [i \in 2..len |-> IF delta[i] < 0 THEN -delta[i] ELSE 0]
    IN  IF len < period + 1 THEN Needs("RSI", period + 1)
        ELSE LET gain == RollingMean(up, len, period)
                 loss == RollingMean(down, len, period)
                 rs == FDiv(gain, loss)
                 rsi == FSub(Num(100), FDiv(Num(100), FAdd(Num(1), rs)))
             IN  Return(rsi)

RECURSIVE EwmFrom(_, _, _, _, _, _)
\* the adjust=True recursion of ewm(span).mean() from row i on, in units of
\* 1/Scale: old_wt *= 1 - alpha;
\* weighted = (old_wt * weighted + cur) / (old_wt + 1); old_wt += 1,
\* with alpha = 2 / (span + 1)
EwmFrom(x, span, i, weighted, old_wt, acc) ==
    IF i > Len(x) THEN acc
    ELSE LET wt == (old_wt * (span - 1)) \div (span + 1)
             avg == weighted + ((x[i] - weighted) * Scale) \div (wt + Scale)
         IN  EwmFrom(x, span, i + 1, avg, wt + Scale, Append(acc, avg))

\* series.ewm(span=span).mean() of a column given in units of 1/Scale
Ewm(x, span) == EwmFrom(x, span, 2, x[1], Scale, <<x[1]>>)

\* _calculate_macd with the fast and the slow period exchanged
_calculate_macdSwapped(df, params) ==
    LET fast_period == params.macd_slow
        slow_period == params.macd_fast
        signal_period == params.macd_signal
        close == [i \in 1..Len(df) |-> df[i].close * Scale]
    IN  IF Len(df) < params.macd_slow + signal_period
        THEN Needs("MACD", params.macd_slow + signal_period)
        ELSE LET ema_fast == Ewm(close, fast_period)
                 ema_slow == Ewm(close, slow_period)
                 macd_line == [i \in 1..Len(df) |-> ema_fast[i] - ema_slow[i]]
                 signal_line == Ewm(macd_line, signal_period)
                 last == Len(df)
             IN  Return([macd |-> Float(macd_line[last], Scale),
                         signal |-> Float(signal_line[last], Scale),
                         histogram |-> Float(macd_line[last] - signal_line[last], Scale)])

\* TechnicalAnalyzer._calculate_macd
_calculate_macd(df, params) ==
    LET fast_period == params.macd_fast
        slow_period == params.macd_slow
        signal_period == params.macd_signal
        close == [i \in 1..Len(df) |-> df[i].close * Scale]
    IN  IF Len(df) < slow_period + signal_period
        THEN Needs("MACD", slow_period + signal_period)
        ELSE LET ema_fast == Ewm(close, fast_period)
                 ema_slow == Ewm(close, slow_period)
                 macd_line == [i \in 1..Len(df) |-> ema_fast[i] - ema_slow[i]]
                 signal_line == Ewm(macd_line, signal_period)
                 last == Len(df)
             IN  Return([macd |-> Float(macd_line[last], Scale),
                         signal |-> Float(signal_line[last], Scale),
                         histogram |-> Float(macd_line[last] - signal_line[last], Scale)])

\* TechnicalAnalyzer._calculate_bollinger_bands: the middle band is the
\* rolling mean; the bands and the bandwidth need a standard deviation
_calculate_bollinger_bands(df, params) ==
    LET period == params.bb_period
        close == [i \in 1..Len(df) |-> df[i].close]
    IN  IF Len(df) < period THEN Needs("Bollinger Bands", period)
        ELSE Return([upper |-> Uncomputed,
                     middle |-> RollingMean(close, Len(df), period),
                     lower |-> Uncomputed, bandwidth |-> Uncomputed])

\* TechnicalAnalyzer._calculate_sma: the periods the series is long enough
\* for, each with its rolling mean
_calculate_sma(df, params) ==
    LET periods == params.sma_periods
        close == [i \in 1..Len(df) |-> df[i].close]
        used == {periods[k] : k \in {j \in 1..Len(periods) : Len(df) >= periods[j]}}
    IN  IF \E period \in used : period < 0 THEN Raise("ValueError")
        ELSE Return([period \in used |-> RollingMean(close, Len(df), period)])

\* TechnicalAnalyzer._calculate_ema
_calculate_ema(df, params) ==
    LET periods == params.ema_periods
        close == [i \in 1..Len(df) |-> df[i].close * Scale]
        used == {periods[k] : k \in {j \in 1..Len(periods) : Len(df) >= periods[j]}}
    IN  IF \E period \in used : period < 1 THEN Raise("ValueError")
        ELSE Return([period \in used |-> Float(Ewm(close, period)[Len(df)], Scale)])

\* 100 * (close - lowest_low) / (highest_high - lowest_low) at row i
PercentK(df, i, k_period) ==
    LET W == (i - k_period + 1)..i
        lowest_low == MinOf({df[j].low : j \in W})
        highest_high == MaxOf({df[j].high : j \in W})
    IN  FMul(Num(100), FDiv(Num(df[i].close - lowest_low),
                            Num(highest_high - lowest_low)))

RECURSIVE FSum(_, _, _, _)
\* sum of the floats col[i] for i in lo..hi
FSum(col, lo, hi, acc) ==
    IF lo > hi THEN acc ELSE FSum(col, lo + 1, hi, FAdd(acc, col[lo]))

\* TechnicalAnalyzer._calculate_stochastic; a rolling mean over a window
\* holding a NaN has too few observations and is NaN
_calculate_stochastic(df, params) ==
    LET k_period == params.stoch_k
        d_period == params.stoch_d
        len == Len(df)
        W == (len - d_period + 1)..len
    IN  IF len < k_period + d_period THEN Needs("Stochastic", k_period + d_period)
        ELSE LET k_percent == [i \in W |-> PercentK(df, i, k_period)]
                 d_percent ==
                     IF \E i \in W : IsNaN(k_percent[i]) THEN NaN
                     ELSE FDiv(FSum(k_percent, len - d_period + 1, len, Num(0)),
                               Num(d_period))
             IN  Return([k |-> k_percent[len], d |-> d_percent])

\* TechnicalAnalyzer._calculate_williams_r
_calculate_williams_r(df, params) ==
    LET period == params.williams_period
        len == Len(df)
        W == (len - period + 1)..len
    IN  IF len < period THEN Needs("Williams", period)
        ELSE LET highest_high == MaxOf({df[j].high : j \in W})
                 lowest_low == MinOf({df[j].low : j \in W})
             IN  Return(FMul(Num(-100),
                             FDiv(Num(highest_high - df[len].close),
                                  Num(highest_high - lowest_low))))

\* TechnicalAnalyzer._calculate_cci: a float, from a mean deviation
_calculate_cci(df, params) ==
    LET period == params.cci_period
    IN  IF Len(df) < period THEN Needs("CCI", period)
        ELSE Return(Uncomputed)

\* TechnicalAnalyzer._calculate_momentum
_calculate_momentum(df, params) ==
    LET period == params.momentum_period
        len == Len(df)
    IN  IF len < period + 1 THEN Needs("Momentum", period + 1)
        ELSE Return(FMul(FDiv(Num(df[len].close), Num(df[len - period].close)),
                         Num(100)))

\* TechnicalAnalyzer.supported_indicators[indicator](df, params)
supported_indicators(indicator, df, params) ==
    CASE indicator = "rsi" -> _calculate_rsi(df, params)
      [] indicator = "macd" -> _calculate_macd(df, params)
      [] indicator = "bollinger_bands" -> _calculate_bollinger_bands(df, params)
      [] indicator = "sma" -> _calculate_sma(df, params)
      [] indicator = "ema" -> _calculate_ema(df, params)
      [] indicator = "stochastic" -> _calculate_stochastic(df, params)
      [] indicator = "williams_r" -> _calculate_williams_r(df, params)
      [] indicator = "cci" -> _calculate_cci(df, params)
      [] indicator = "momentum" -> _calculate_momentum(df, params)

\* TechnicalIndicators(symbol, timestamp, timeframe, data_points_used=n):
\* every indicator field None
TechnicalIndicators(n) ==
    [rsi |-> None, macd |-> None, bollinger_bands |-> None, sma_20 |-> None,
     sma_50 |-> None, ema_12 |-> None, ema_26 |-> None, stochastic |-> None,
     williams_r |-> None, cci |-> None, momentum |-> None, volume_sma |-> None,
     data_points_used |-> n]

\* dict.get(key): None for a missing key
Get(dict, key) == IF key \in DOMAIN dict THEN dict[key] ELSE None

\* TechnicalAnalyzer._set_indicator_result
_set_indicator_result(result, indicator, value) ==
    CASE indicator = "rsi" -> [result EXCEPT !.rsi = value]
      [] indicator = "macd" -> [result EXCEPT !.macd = value]
      [] indicator = "bollinger_bands" -> [result EXCEPT !.bollinger_bands = value]
      [] indicator = "sma" ->
            [result EXCEPT !.sma_20 = Get(value, 20), !.sma_50 = Get(value, 50)]
      [] indicator = "ema" ->
            [result EXCEPT !.ema_12 = Get(value, 12), !.ema_26 = Get(value, 26)]
      [] indicator = "stochastic" -> [result EXCEPT !.stochastic = value]
      [] indicator = "williams_r" -> [result EXCEPT !.williams_r = value]
      [] indicator = "cci" -> [result EXCEPT !.cci = value]
      [] indicator = "momentum" -> [result EXCEPT !.momentum = value]

\* str.lower() on the names the model passes
lower(name) == IF name = "RSI" THEN "rsi" ELSE name

RECURSIVE ResolveList(_, _)
\* the loop of _resolve_indicators: names of IndicatorType are kept, in
\* order and with repetitions, every other string is dropped with a warning
ResolveList(list, resolved) ==
    IF list = <<>> THEN resolved
    ELSE ResolveList(Tail(list),
            IF \E k \in 1..Len(IndicatorType) : IndicatorType[k] = lower(Head(list))
            THEN Append(resolved, lower(Head(list)))
            ELSE resolved)

\* _resolve_indicators that computes every indicator whatever was asked for
_resolve_indicatorsAll(indicators) == IndicatorType

\* TechnicalAnalyzer._resolve_indicators
_resolve_indicators(indicators) ==
    IF ~indicators.given THEN IndicatorType
    ELSE ResolveList(indicators.list, <<>>)

RECURSIVE CalculateAborting(_, _, _, _)
\* Calculate whose loop ends at the first calculation that raises
CalculateAborting(c, params, todo, failed) ==
    IF todo = <<>>
    THEN [c EXCEPT !.pc = "returned", !.failed = failed]
    ELSE LET indicator == Head(todo)
             indicator_result == supported_indicators(indicator, c.df, params)
         IN  IF indicator_result.ok
             THEN CalculateAborting(
                      [c EXCEPT !.result = _set_indicator_result(
                                     c.result, indicator, indicator_result.value)],
                      params, Tail(todo), failed)
             ELSE [c EXCEPT !.pc = "returned", !.failed = failed \cup {indicator}]

RECURSIVE Calculate(_, _, _, _)
\* the indicator loop of analyze and its return: each calculation that
\* raises is logged and skipped
Calculate(c, params, todo, failed) ==
    IF todo = <<>>
    THEN [c EXCEPT !.pc = "returned", !.failed = failed]
    ELSE LET indicator == Head(todo)
             indicator_result == supported_indicators(indicator, c.df, params)
         IN  IF indicator_result.ok
             THEN Calculate(
                      [c EXCEPT !.result = _set_indicator_result(
                                     c.result, indicator, indicator_result.value)],
                      params, Tail(todo), failed)
             ELSE Calculate(c, params, Tail(todo), failed \cup {indicator})

\* analyze from the prepared DataFrame to its return
CalculateIndicators ==
    /\ ta.pc = "prepared"
    /\ LET indicators_to_calc == _resolve_indicators(ta.indicators)
           params == Params(ta.overrides)
           result == TechnicalIndicators(Len(ta.df))
       IN  ta' = Calculate([ta EXCEPT !.result = result], params,
                           indicators_to_calc, {})
    /\ UNCHANGED <<mgrvars, an>>

\* get_signals with the RSI thresholds included in the outer classes
get_signalsInclusive(result) ==
    (IF result.rsi # None
     THEN {[key |-> "rsi",
            signal |-> IF ~FLt(result.rsi, Num(70)) THEN "overbought"
                       ELSE IF ~FGt(result.rsi, Num(30)) THEN "oversold"
                       ELSE "neutral"]}
     ELSE {})
    \cup
    (IF result.macd # None /\ "histogram" \in DOMAIN result.macd
     THEN {[key |-> "macd",
            signal |-> IF FGt(result.macd.histogram, Num(0)) THEN "bullish"
                       ELSE "bearish"]}
     ELSE {})
    \cup
    (IF result.bollinger_bands # None
     THEN {[key |-> "bollinger", signal |-> "neutral"]}
     ELSE {})

\* TechnicalIndicators.get_signals: the signal map, as its set of items
get_signals(result) ==
    (IF result.rsi # None
     THEN {[key |-> "rsi",
            signal |-> IF FGt(result.rsi, Num(70)) THEN "overbought"
                       ELSE IF FLt(result.rsi, Num(30)) THEN "oversold"
                       ELSE "neutral"]}
     ELSE {})
    \cup
    (IF result.macd # None /\ "histogram" \in DOMAIN result.macd
     THEN {[key |-> "macd",
            signal |-> IF FGt(result.macd.histogram, Num(0)) THEN "bullish"
                       ELSE "bearish"]}
     ELSE {})
    \cup
    (IF result.bollinger_bands # None
     THEN {[key |-> "bollinger", signal |-> "neutral"]}
     ELSE {})

\* a caller asks a result for its signals
GetSignals ==
    /\ ta.pc \in {"returned", "constructed"}
    /\ ta' = [ta EXCEPT !.pc = "signalled", !.signals = get_signals(ta.result)]
    /\ UNCHANGED <<mgrvars, an>>

\* the candle series analyze may be given
SeriesLengths == {20, 35, 50}
Slopes == {-1, 0, 1}

RECURSIVE TailCloses(_, _, _)
\* the closes that follow the close last by the moves of tail
TailCloses(last, tail, acc) ==
    IF tail = <<>> THEN acc
    ELSE TailCloses(last + Head(tail), Tail(tail), Append(acc, last + Head(tail)))

\* a candle series of len rows: the closes start at 100 and move by slope a
\* row, the last rows by the moves of tail; high and low lie spread above
\* and below the close (spread 0 is what CoinGeckoDataSource delivers:
\* open = high = low = close)
Series(len, slope, tail, spread) ==
    LET head == [i \in 1..(len - Len(tail)) |-> 100 + slope * (i - 1)]
        close == head \o TailCloses(head[Len(head)], tail, <<>>)
    IN  [i \in 1..len |->
            [close |-> close[i], high |-> close[i] + spread,
             low |-> close[i] - spread]]

\* the lists of names a caller asks for
IndicatorRequests ==
    {AllIndicators} \cup
    {[given |-> TRUE, list |-> l] :
        l \in {<<>>, <<"rsi", "macd">>, <<"RSI", "volume">>,
               <<"bollinger_bands", "stochastic", "williams_r">>}}

\* analyze after _prepare_dataframe
Prepared(df, indicators, overrides) ==
    [NoCalculation EXCEPT !.pc = "prepared", !.df = df,
                          !.indicators = indicators, !.overrides = overrides]

\* the values a caller may build a TechnicalIndicators object with
RsiSamples ==
    {None, NaN} \cup {Num(k) : k \in {0, 29, 30, 31, 50, 69, 70, 71, 100}}
       \cup {Float(301, 10), Float(699, 10)}
HistogramSamples == {None, NaN} \cup {Num(k) : k \in {-1, 0, 1}}

\* TechnicalIndicators(..., rsi=rsi, macd={..., 'histogram': histogram},
\* bollinger_bands=bollinger_bands)
Constructed(rsi, histogram, bollinger_bands) ==
    [NoCalculation EXCEPT
        !.pc = "constructed",
        !.result = [TechnicalIndicators(0) EXCEPT
                       !.rsi = rsi,
                       !.macd = IF histogram = None THEN None
                                ELSE [macd |-> Num(0), signal |-> Num(0),
                                      histogram |-> histogram],
                       !.bollinger_bands = bollinger_bands]]

\* an analysis holding a prepared DataFrame (every series with the default
\* parameters, and the rising series with every set of overridden
\* parameters), or a result object built by a caller
InitIndicators ==
    /\ now = StartTime
    /\ ticks = 0
    /\ scope = [symbol |-> "BTC", interval |-> "1d", period |-> "1d"]
    /\ store = <<>>
    /\ calls = 0
    /\ active = {}
    /\ call = [t \in Tasks |-> NoCall]
    /\ prev = [t \in Tasks |-> NoCall]
    /\ an = NoAnalysis
    /\ src = NoSource
    /\ ta \in {Prepared(Series(len, slope, tail, spread), indicators, {}) :
                  len \in SeriesLengths, slope \in Slopes,
                  tail \in [1..MaxTail -> Slopes], spread \in {0, 1},
                  indicators \in IndicatorRequests}
         \cup {Prepared(Series(len, 1, <<>>, 1), AllIndicators, overrides) :
                  len \in SeriesLengths,
                  overrides \in SUBSET {IndicatorType[k] : k \in 1..Len(IndicatorType)}}
         \cup {Constructed(rsi, histogram, bollinger_bands) :
                  rsi \in RsiSamples, histogram \in HistogramSamples,
                  bollinger_bands \in
                      {None, [upper |-> Num(110), middle |-> Num(100),
                              lower |-> Num(90), bandwidth |-> Num(20)]}}

NextIndicators ==
    \/ CalculateIndicators
    \/ GetSignals

SpecIndicators == InitIndicators /\ [][NextIndicators]_vars

\* ------------------------------------------- one calculation method alone
\* the lengths of the series a calculation method is called with
ShortLengths == {1, 10, 11, 13, 14, 15, 16, 17, 19, 20, 34, 35}

\* a caller holding a DataFrame df is about to call the calculation method
\* of one indicator, as the tests do (analyzer._calculate_rsi(df, params))
Calling(df, indicator, overrides) ==
    [NoCalculation EXCEPT !.pc = "calling", !.df = df,
                          !.indicators = [given |-> TRUE, list |-> <<indicator>>],
                          !.overrides = overrides]

\* the method is called: result is what it returns or raises
CallIndicator ==
    /\ ta.pc = "calling"
    /\ ta' = [ta EXCEPT !.pc = "called",
                        !.result = supported_indicators(ta.indicators.list[1], ta.df,
                                                        Params(ta.overrides))]
    /\ UNCHANGED <<mgrvars, an>>

InitCalculation ==
    /\ now = StartTime
    /\ ticks = 0
    /\ scope = [symbol |-> "BTC", interval |-> "1d", period |-> "1d"]
    /\ store = <<>>
    /\ calls = 0
    /\ active = {}
    /\ call = [t \in Tasks |-> NoCall]
    /\ prev = [t \in Tasks |-> NoCall]
    /\ an = NoAnalysis
    /\ src = NoSource
    /\ ta \in UNION {{Calling(Series(len, slope, <<>>, spread), IndicatorType[k],
                               overrides) :
                          len \in ShortLengths, slope \in Slopes, spread \in {0, 1},
                          overrides \in {{}, {IndicatorType[k]}}} :
                     k \in 1..Len(IndicatorType)}

NextCalculation == CallIndicator

SpecCalculation == InitCalculation /\ [][NextCalculation]_vars

\* ------------------------------------------------------------ properties
Range(s) == {s[i] : i \in DOMAIN s}

Finished(c) == c.pc \in {"returned", "raised"}

\* every data source was tried in the call and none returned candles
NoSourceData(c) ==
    /\ Finished(c)
    /\ \A i \in 1..Len(data_sources) : data_sources[i] \in Range(c.log)
    /\ "write" \notin Range(c.log)
    /\ "write_failed" \notin Range(c.log)

\* the stored candles of the call's symbol and interval inside its window
LocalNow(c) ==
    _get_local_data(store, c.req.symbol, c.req.interval, c.win.start, c.win.end)

\* floor((end - start) / interval seconds) of the call's window
ExpectedBars(c) == (c.win.end - c.win.start) \div _interval_to_seconds(c.req.interval)

\* C1: when every source failed or came back empty, get_data returns the
\* stored candles of the window, sufficient or not, and raises
\* HistoricalDataError with the symbol only when there are none
C1_StaleFallback ==
    \A t \in Tasks :
        LET c == call[t]
        IN  NoSourceData(c) =>
              IF LocalNow(c) # <<>>
              THEN c.pc = "returned" /\ c.result = LocalNow(c)
              ELSE /\ c.pc = "raised"
                   /\ c.error.type = "HistoricalDataError"
                   /\ c.error.symbol = c.req.symbol

\* a call served insufficient stored candles after all three sources failed
C1_Witness ==
    \E t \in Tasks :
        LET c == call[t]
        IN  /\ NoSourceData(c)
            /\ c.pc = "returned"
            /\ c.result # <<>>
            /\ ~_is_data_sufficient(c.result, c.win.start, c.win.end, c.req.interval)

\* C2: a get_data call with force_refresh false whose stored candles pass the
\* sufficiency check returns them at once with the read as its only
\* operation; with force_refresh true the call starts with the sources and
\* reads the store before none of them
C2_CacheHit ==
    [][\A t \in Tasks :
         LET c == call'[t]
             local == _get_local_data(store, c.req.symbol, c.req.interval,
                                      c.win.start, c.win.end)
         IN  /\ (calls' = calls + 1 /\ call'[t] # call[t]
                  /\ c.req.period \in DOMAIN period_map) =>
                   /\ c.win = [start |-> now - period_map[c.req.period], end |-> now]
                   /\ (~c.req.force_refresh
                        /\ _is_data_sufficient(local, c.win.start, c.win.end,
                                               c.req.interval)) =>
                          /\ c.pc = "returned"
                          /\ c.result = local
                          /\ c.log = <<"read">>
                   /\ c.req.force_refresh => c.pc = "fetching" /\ c.log = <<>>
             /\ (c.req.force_refresh /\ c.log # <<>>) => c.log[1] = data_sources[1]
      ]_vars

\* a call was answered from the cache without contacting a source
C2_Witness ==
    \E t \in Tasks :
        /\ call[t].served = "cache"
        /\ call[t].pc = "returned"
        /\ ~call[t].req.force_refresh
        /\ call[t].log = <<"read">>

\* the store row a fetched candle is saved as
RowOf(item) ==
    [symbol |-> item.symbol, timestamp |-> item.timestamp, interval |-> item.interval,
     source |-> item.source, close |-> item.close]

\* C3: a call that missed the cache and got candles from a source has every
\* one of them in the store when it returns, and returns the fetched series
C3_CacheRefresh ==
    \A t \in Tasks :
        LET c == call[t]
        IN  (c.pc = "returned" /\ c.served = "api") =>
              /\ c.result # <<>>
              /\ c.result = c.api_data
              /\ \A i \in 1..Len(c.api_data) :
                    /\ c.api_data[i].source = data_sources[c.idx]
                    /\ \E j \in 1..Len(store) :
                          RowOf(store[j]) = RowOf(c.api_data[i])
              /\ c.log[Len(c.log)] = "write"

\* a call returned a fetched series while the store held more candles of the
\* window than the series has
C3_Witness ==
    \E t \in Tasks :
        /\ call[t].pc = "returned"
        /\ call[t].served = "api"
        /\ Len(LocalNow(call[t])) > Len(call[t].result)

\* number of distinct bar timestamps in a series
DistinctBars(series) == Cardinality({series[i].timestamp : i \in DOMAIN series})

\* C4: get_data returns stored candles that cover fewer than 80% of the
\* expected bars of the window (by distinct timestamps) only when every
\* source was tried in the call and none returned candles
C4_NoStaleWhileFresh ==
    \A t \in Tasks :
        LET c == call[t]
        IN  (/\ c.pc = "returned"
             /\ c.served \in {"cache", "stale"}
             /\ DistinctBars(c.result) * 10 < ExpectedBars(c) * 8) =>
              NoSourceData(c)

\* the timestamps and values of a series, whatever other keys its dicts have
Candles(series) ==
    [i \in 1..Len(series) |->
        [timestamp |-> series[i].timestamp, close |-> series[i].close]]

\* C5 as claimed: two consecutive get_data calls with force_refresh false for
\* the same symbol, interval and period return the same series when the
\* second call fetched no new data
C5_CacheIdempotence ==
    \A t \in Tasks :
        LET c == call[t]
            p == prev[t]
        IN  (/\ p.pc = "returned" /\ c.pc = "returned"
             /\ ~p.req.force_refresh /\ ~c.req.force_refresh
             /\ p.req = c.req
             /\ c.served # "api") =>
              Candles(c.result) = Candles(p.result)

\* C5 as amended: when the first call was served from the store, and the
\* second call has the same request and the same window and ends without
\* candles from a source, the second call returns the same series
C5_StoreServedIdempotence ==
    \A t \in Tasks :
        LET c == call[t]
            p == prev[t]
        IN  (/\ p.pc = "returned" /\ p.served \in {"cache", "stale"}
             /\ ~p.req.force_refresh /\ ~c.req.force_refresh
             /\ p.req = c.req /\ p.win = c.win
             /\ Finished(c)
             /\ c.served # "api" /\ c.error.cause # "DatabaseError") =>
              c.pc = "returned" /\ Candles(c.result) = Candles(p.result)

\* two consecutive cache hits for the same window
C5_Witness ==
    \E t \in Tasks :
        /\ prev[t].served = "cache" /\ call[t].served = "cache"
        /\ prev[t].req = call[t].req /\ prev[t].win = call[t].win
        /\ call[t].result # <<>>

\* C6: every series get_data returns has strictly increasing timestamps
C6_StrictlyIncreasing ==
    \A t \in Tasks :
        call[t].pc = "returned" =>
            \A i \in 1..(Len(call[t].result) - 1) :
                call[t].result[i].timestamp < call[t].result[i + 1].timestamp

\* C7: get_data with an unsupported period raises ValidationError before any
\* store read and before any source is contacted
C7_InvalidPeriodValidationError ==
    \A t \in Tasks :
        LET c == call[t]
        IN  (c.pc # "idle" /\ c.req.period \notin {"1d", "7d", "30d", "90d"}) =>
              /\ c.pc = "raised"
              /\ c.error.type = "ValidationError"
              /\ c.log = <<>>

\* C8: a failed store write after a successful fetch reaches the caller as
\* a storage-fault error, not as the error type of the other failures
C8_StorageFaultTyped ==
    \A t \in Tasks :
        LET c == call[t]
        IN  (c.pc = "raised" /\ "write_failed" \in Range(c.log)) =>
              c.error.type \in {"DatabaseError", "StoreError"}

\* C9: analyze with an empty symbol, a timeframe outside the seven supported
\* ones or a period outside the four supported ones raises ValidationError
\* and never calls the historical data manager
C9_ValidationFirst ==
    (/\ an.pc # "idle"
     /\ \/ an.symbol = ""
        \/ an.timeframe \notin {"1m", "5m", "15m", "1h", "4h", "1d", "1w"}
        \/ an.period \notin {"1d", "7d", "30d", "90d"}) =>
      /\ an.pc = "raised"
      /\ an.error = "ValidationError"
      /\ an.mgr_calls = 0
      /\ ~an.mgr.called

\* analyze of BTC with timeframe 2h on an analyzer that has a manager
C9_Witness ==
    /\ an.pc = "raised"
    /\ an.manager
    /\ an.symbol = "BTC"
    /\ an.timeframe = "2h"
    /\ an.period = "30d"

\* C10: when the manager returns fewer than 20 candles analyze raises
\* TechnicalAnalysisError and builds no result; with 20 or more it returns
\* a result
C10_MinimumCandles ==
    (an.mgr.called /\ ~an.mgr.raised /\ Finished(an)) =>
        IF an.mgr.n < 20
        THEN /\ an.pc = "raised"
             /\ an.error = "TechnicalAnalysisError"
             /\ an.data_points_used = 0
        ELSE /\ an.pc = "returned"
             /\ an.error = "none"
             /\ an.data_points_used = an.mgr.n

\* the manager returned 19 candles and analyze raised
C10_Witness ==
    /\ an.mgr.called /\ ~an.mgr.raised
    /\ an.mgr.n = 19
    /\ an.pc = "raised"

\* the data sources a call has awaited so far, in the order it awaited them
SourcesTried(c) ==
    SelectSeq(c.log, LAMBDA e : e \in {"Binance", "OKX", "CoinGecko"})

\* C19: a call awaits the sources in the order Binance, OKX, CoinGecko, each
\* at most once; it goes on to the next source after every error and every
\* empty answer; the series it fetched is the non-empty answer of the last
\* source it awaited, so no source is contacted after that one
C19_PriorityOrder ==
    \A t \in Tasks :
        LET c == call[t]
            tried == SourcesTried(c)
            order == <<"Binance", "OKX", "CoinGecko">>
        IN  /\ Len(tried) <= 3
            /\ tried = SubSeq(order, 1, Len(tried))
            /\ c.pc = "fetching" => Len(tried) = c.idx - 1
            /\ (Finished(c) /\ c.served # "cache" /\ c.error.cause # "ValueError") =>
                  IF c.served = "api" \/ c.error.cause = "DatabaseError"
                  THEN /\ c.log[Len(c.log)] \in {"write", "write_failed"}
                       /\ c.log[Len(c.log) - 1] = "http"
                       /\ c.log[Len(c.log) - 2] = tried[Len(tried)]
                       /\ c.served = "api" =>
                             /\ c.result # <<>>
                             /\ \A i \in 1..Len(c.result) :
                                    c.result[i].source = tried[Len(tried)]
                  ELSE tried = order

\* OKX answered with candles after Binance had not, and CoinGecko was not asked
C19_Witness ==
    \E t \in Tasks :
        /\ call[t].pc = "returned"
        /\ call[t].served = "api"
        /\ call[t].result[1].source = "OKX"
        /\ SourcesTried(call[t]) = <<"Binance", "OKX">>

\* C20: when every source was awaited and none answered with candles, no
\* error of a source ends the call: get_data goes on to its second store
\* read with an empty fetched series, and raises only for want of data
C20_FailuresContained ==
    \A t \in Tasks :
        LET c == call[t]
        IN  /\ (Finished(c) /\ SourcesTried(c) = <<"Binance", "OKX", "CoinGecko">>
                 /\ c.served # "api" /\ c.error.cause # "DatabaseError") =>
                  /\ c.api_data = <<>>
                  /\ c.log[Len(c.log)] = "read"
                  /\ c.error.cause \in {"none", "NoData"}
                  /\ c.pc = "raised" => c.error.cause = "NoData"
            /\ c.error.cause \in {"none", "ValueError", "DatabaseError", "NoData"}

\* CoinGecko refused the request before any HTTP exchange, as the last of
\* three sources without candles, and the call went on to read the store
C20_Witness ==
    \E t \in Tasks :
        LET c == call[t]
        IN  /\ c.pc = "returned"
            /\ c.served = "stale"
            /\ Len(c.log) >= 2
            /\ c.log[Len(c.log) - 1] = "CoinGecko"
            /\ c.log[Len(c.log)] = "read"

\* ta is an analysis that has run its indicator loop
Analysed == ta.pc \in {"returned", "signalled"} /\ ta.df # <<>>

\* the nine indicators
Nine ==
    {"rsi", "macd", "bollinger_bands", "sma", "ema", "stochastic", "williams_r",
     "cci", "momentum"}

\* the indicators the caller of the analysis asked for
Requested ==
    IF ~ta.indicators.given THEN Nine
    ELSE {lower(ta.indicators.list[k]) : k \in 1..Len(ta.indicators.list)} \cap Nine

\* the result fields an indicator is stored in
FieldsOf(indicator) ==
    CASE indicator = "sma" -> {"sma_20", "sma_50"}
      [] indicator = "ema" -> {"ema_12", "ema_26"}
      [] OTHER -> {indicator}

\* the result field a successful calculation on 20 or more candles fills
PrimaryField(indicator) ==
    CASE indicator = "sma" -> "sma_20"
      [] indicator = "ema" -> "ema_12"
      [] OTHER -> indicator

\* the requested indicators whose calculation raises: those whose window was
\* overridden, and MACD on fewer than 26 + 9 candles
Failing ==
    {i \in Requested : i \in ta.overrides \/ (i = "macd" /\ Len(ta.df) < 35)}

C12_OnlyRequested ==
    Analysed =>
        /\ \A i \in Nine \ Requested : \A f \in FieldsOf(i) : ta.result[f] = None
        /\ ta.result.volume_sma = None
        /\ (/\ ta.indicators = [given |-> TRUE, list |-> <<"rsi", "macd">>]
             /\ Len(ta.df) >= 35 /\ ta.overrides = {}) =>
               \A f \in {"rsi", "macd", "bollinger_bands", "sma_20", "sma_50",
                          "ema_12", "ema_26", "stochastic", "williams_r", "cci",
                          "momentum"} :
                   (ta.result[f] # None) <=> (f \in {"rsi", "macd"})

\* an analysis of 35 candles for rsi and macd returned both
C12_Witness ==
    /\ ta.pc = "returned"
    /\ ta.indicators = [given |-> TRUE, list |-> <<"rsi", "macd">>]
    /\ Len(ta.df) = 35
    /\ ta.result.rsi # None
    /\ ta.result.macd # None
    /\ ta.result.stochastic = None

\* C13: an analyzer with a historical data manager returns only results
\* computed from the series the manager returned for the call, with
\* data_points_used the length of that series
C13_ManagerSeriesUsed ==
    (an.manager /\ an.pc = "returned") =>
        /\ an.mgr.called
        /\ ~an.mgr.raised
        /\ an.data = an.mgr.n
        /\ an.data_points_used = an.mgr.n

\* the closes of the analysed series are first, first + 1, first + 2, ...
Rising(first) == \A i \in 1..Len(ta.df) : ta.df[i].close = first + i - 1

\* C14 as claimed: the analysis of the 20 closes 100..119 with default
\* parameters has a MACD with histogram > 0 and the MACD signal bullish
C14_Rising20Bullish ==
    (Analysed /\ Len(ta.df) = 20 /\ Rising(100) /\ "macd" \in Requested
        /\ ta.overrides = {}) =>
        /\ ta.result.macd # None
        /\ FGt(ta.result.macd.histogram, Num(0))
        /\ ta.pc = "signalled" => [key |-> "macd", signal |-> "bullish"] \in ta.signals

\* C14 as amended: the analysis of 35 or more closes 100, 101, 102, ... with
\* default parameters has a MACD with histogram > 0 and the MACD signal
\* bullish; on the 20 closes 100..119 MACD is None and has no signal
C14_RisingBullish ==
    (Analysed /\ Rising(100) /\ "macd" \in Requested /\ ta.overrides = {}) =>
        IF Len(ta.df) >= 35
        THEN /\ ta.result.macd # None
             /\ FGt(ta.result.macd.histogram, Num(0))
             /\ ta.pc = "signalled" =>
                   [key |-> "macd", signal |-> "bullish"] \in ta.signals
        ELSE /\ ta.result.macd = None
             /\ \A e \in ta.signals : e.key # "macd"

\* the signals of the analysis of the closes 100..134 were derived
C14_Witness ==
    /\ ta.pc = "signalled"
    /\ Len(ta.df) = 35
    /\ Rising(100)
    /\ [key |-> "macd", signal |-> "bullish"] \in ta.signals

\* C15: get_signals gives RSI > 70 overbought, RSI < 30 oversold and every
\* other RSI neutral; histogram > 0 bullish and every other histogram
\* bearish; one entry for each of them that is set, and no entry for an
\* indicator that is None
C15_SignalClasses ==
    ta.pc = "signalled" =>
        LET r == ta.result
            rsi_signal == IF FGt(r.rsi, Num(70)) THEN "overbought"
                          ELSE IF FLt(r.rsi, Num(30)) THEN "oversold"
                          ELSE "neutral"
            macd_signal == IF FGt(r.macd.histogram, Num(0)) THEN "bullish"
                           ELSE "bearish"
        IN  /\ \A e \in ta.signals :
                  /\ e.key = "rsi" => r.rsi # None /\ e.signal = rsi_signal
                  /\ e.key = "macd" => r.macd # None /\ e.signal = macd_signal
                  /\ e.key = "bollinger" => r.bollinger_bands # None
                  /\ e.key \in {"rsi", "macd", "bollinger"}
            /\ r.rsi # None => \E e \in ta.signals : e.key = "rsi"
            /\ r.macd # None => \E e \in ta.signals : e.key = "macd"

\* an RSI of exactly 70 was classified neutral and a histogram of 0 bearish
C15_Witness ==
    /\ ta.pc = "signalled"
    /\ ta.result.rsi = Num(70)
    /\ ta.result.macd # None
    /\ ta.result.macd.histogram = Num(0)
    /\ ta.signals = {[key |-> "rsi", signal |-> "neutral"],
                     [key |-> "macd", signal |-> "bearish"]}

\* C16: the signal map of an analysis result has entries for RSI and MACD
\* only
C16_OnlyRsiMacdSignals ==
    (ta.pc = "signalled" /\ ta.df # <<>>) =>
        \A e \in ta.signals : e.key \in {"rsi", "macd"}

\* C17: the RSI of a series of 35 or more candles, with the default period,
\* lies in [0, 100]
C17_RsiRange ==
    (Analysed /\ Len(ta.df) >= 35 /\ "rsi" \in Requested
        /\ "rsi" \notin ta.overrides) =>
        /\ ta.result.rsi # None
        /\ FBetween(Num(0), ta.result.rsi, Num(100))

\* C18: on a series with low <= close <= high in every candle, %K and %D
\* lie in [0, 100] and Williams %R in [-100, 0]
C18_OscillatorRanges ==
    (Analysed /\ \A i \in 1..Len(ta.df) :
                    ta.df[i].low <= ta.df[i].close /\ ta.df[i].close <= ta.df[i].high) =>
        /\ ("stochastic" \in Requested \ ta.overrides) =>
              /\ ta.result.stochastic # None
              /\ FBetween(Num(0), ta.result.stochastic.k, Num(100))
              /\ FBetween(Num(0), ta.result.stochastic.d, Num(100))
        /\ ("williams_r" \in Requested \ ta.overrides) =>
              /\ ta.result.williams_r # None
              /\ FBetween(Num(-100), ta.result.williams_r, Num(0))

\* the seconds one candle of an interval covers
Granularity(interval) ==
    IF interval = "30m" THEN 1800 ELSE interval_map[interval]

\* C21: a fetch that ends in a transport failure, a non-2xx response or an
\* error payload has made 3 requests, with delays of 1 s and 2 s before the
\* second and the third for Binance and OKX and of 2 s and 4 s for CoinGecko;
\* a fetch that returns data has made 1 to 3 requests, with a delay before
\* each but the first
C21_RetryWithBackoff ==
    \A t \in Tasks :
        LET f == src.fetch[t]
            delay == IF src.name = "CoinGecko" THEN 2 ELSE 1
        IN  /\ (f.pc = "raised"
                 /\ f.msg \in {"fetch_failed", "network_request_failed"}) =>
                  /\ f.http = 3
                  /\ f.slept = <<delay, 2 * delay>>
            /\ f.pc = "returned" =>
                  /\ f.http \in 1..3
                  /\ Len(f.slept) = f.http - 1

\* C22: a fetch of a symbol or an interval CoinGecko does not support is
\* attempted once, sleeps for no backoff delay, sends no request and ends
\* in the error that says what is unsupported
C22_UnsupportedFailsFast ==
    \A t \in Tasks :
        LET f == src.fetch[t]
        IN  (src.name = "CoinGecko" /\ f.pc # "idle"
              /\ (f.symbol = "XYZ" \/ f.interval # "1d")) =>
               /\ f.attempts = 1
               /\ f.slept = <<>>
               /\ f.http = 0
               /\ f.pc \in {"sleeping", "raised"}
               /\ f.pc = "raised" =>
                     /\ f.exc = "HistoricalDataError"
                     /\ f.msg \in {"unsupported_symbol", "unsupported_interval"}

\* CoinGecko refused BTC candles of 30 minutes
C22_Witness ==
    /\ src.name = "CoinGecko"
    /\ \E t \in Tasks :
          /\ src.fetch[t].pc = "raised"
          /\ src.fetch[t].symbol = "BTC"
          /\ src.fetch[t].interval = "30m"
          /\ src.fetch[t].msg = "unsupported_interval"
          /\ src.fetch[t].attempts = 1

\* C23: CoinGecko asked for an interval other than 1d sends no request and
\* raises its unsupported-interval error; the candles a source returns have
\* the granularity of the interval asked for
C23_NoSilentDegradation ==
    \A t \in Tasks :
        LET f == src.fetch[t]
        IN  /\ (src.name = "CoinGecko" /\ f.pc # "idle" /\ f.symbol = "BTC"
                 /\ f.interval # "1d") =>
                  /\ f.http = 0
                  /\ f.pc \in {"sleeping", "raised"}
                  /\ f.pc = "raised" =>
                        /\ f.exc = "HistoricalDataError"
                        /\ f.msg = "unsupported_interval"
            /\ f.pc = "returned" =>
                  /\ f.bar = f.interval
                  /\ \A i \in 1..(Len(f.data) - 1) :
                        f.data[i + 1].timestamp - f.data[i].timestamp
                            = Granularity(f.interval)

\* C25: any two requests of one DataSource instance are let through at least
\* 60 / rate_limit seconds apart, whatever the interleaving of its callers
C25_RateLimitRespected ==
    \A i \in 1..(Len(src.issued) - 1) :
        (src.issued[i + 1] - src.issued[i]) * rate_limit[src.name] >= 60000

\* C24: the store holds at most one row for a key; after a call has saved
\* the candles it fetched, the row of each of their keys carries the fetched
\* values, and saving the same candles once more leaves the store as it is
C24_IdempotentUpsert ==
    /\ \A i, j \in 1..Len(store) : RowKey(store[i]) = RowKey(store[j]) => i = j
    /\ \A t \in Tasks :
          LET c == call[t]
          IN  (c.pc = "returned" /\ c.served = "api") =>
                /\ \A k \in 1..Len(c.api_data) :
                      \E i \in 1..Len(store) : store[i] = c.api_data[k]
                /\ _save_to_database(store, c.api_data) = store

\* a call saved candles whose keys the call before it had saved with other
\* values
C24_Witness ==
    \E t \in Tasks :
        /\ prev[t].served = "api"
        /\ call[t].served = "api"
        /\ call[t].pc = "returned"
        /\ \E i \in 1..Len(prev[t].result), j \in 1..Len(call[t].result) :
              /\ RowKey(prev[t].result[i]) = RowKey(call[t].result[j])
              /\ prev[t].result[i].close # call[t].result[j].close

\* C26: the sufficiency check is true exactly when the series has at least
\* 0.8 * (end - start) / intervalSeconds candles: a call without
\* force_refresh is served from the store if and only if the stored candles
\* of its window are that many
C26_SufficiencyThreshold ==
    \A t \in Tasks :
        LET c == call[t]
            data == LocalNow(c)
            intervalSeconds == interval_map[c.req.interval]
        IN  c.pc # "idle" =>
              ((c.served = "cache") <=>
                 (Len(data) * 10 * intervalSeconds >= 8 * (c.win.end - c.win.start)))

\* the fewest candles the calculation of an indicator accepts with
\* parameters p; sma and ema have none (a period longer than the series is
\* left out of what they return)
Minimum(indicator, p) ==
    CASE indicator = "rsi" -> p.rsi_period + 1
      [] indicator = "macd" -> p.macd_slow + p.macd_signal
      [] indicator = "bollinger_bands" -> p.bb_period
      [] indicator = "stochastic" -> p.stoch_k + p.stoch_d
      [] indicator = "williams_r" -> p.williams_period
      [] indicator = "cci" -> p.cci_period
      [] indicator = "momentum" -> p.momentum_period + 1
      [] OTHER -> 0

\* what the text of an error calls an indicator
NameOf(indicator) ==
    CASE indicator = "rsi" -> "RSI"
      [] indicator = "macd" -> "MACD"
      [] indicator = "bollinger_bands" -> "Bollinger Bands"
      [] indicator = "stochastic" -> "Stochastic"
      [] indicator = "williams_r" -> "Williams"
      [] indicator = "cci" -> "CCI"
      [] indicator = "momentum" -> "Momentum"
      [] OTHER -> indicator

\* C27: an indicator calculation on fewer candles than its minimum raises
\* TechnicalAnalysisError, its message naming the indicator and the minimum,
\* and on at least that many it returns a value: the minimum of RSI is
\* period + 1 (15 by default), of MACD slow + signal (35), of the Bollinger
\* Bands period (20), of the stochastic k + d, of Williams %R and CCI the
\* period, of momentum period + 1
C27_InsufficientDataRaises ==
    ta.pc = "called" =>
        LET indicator == ta.indicators.list[1]
            p == Params(ta.overrides)
            minimum == Minimum(indicator, p)
        IN  /\ indicator \notin {"sma", "ema"} =>
                  IF Len(ta.df) < minimum
                  THEN /\ ~ta.result.ok
                       /\ ta.result.value = None
                       /\ ta.result.exc = "TechnicalAnalysisError"
                       /\ ta.result.message =
                             [names |-> NameOf(indicator), minimum |-> minimum]
                  ELSE ta.result.ok
            /\ (indicator = "rsi" /\ p.rsi_period = 14 /\ Len(ta.df) = 10) =>
                  ~ta.result.ok
            /\ (indicator = "macd" /\ p.macd_slow = 26 /\ p.macd_signal = 9
                 /\ Len(ta.df) = 20) => ~ta.result.ok

\* _calculate_rsi on 10 candles with period 14 raised, asking for 15
C27_Witness ==
    /\ ta.pc = "called"
    /\ ta.indicators.list = <<"rsi">>
    /\ Len(ta.df) = 10
    /\ ta.overrides = {}
    /\ ~ta.result.ok
    /\ ta.result.message = [names |-> "RSI", minimum |-> 15]

\* C28: a get_data call suspended in a fetch ends, returning or raising, and
\* awaits at most 3 * 3 fetches on the way
C28_Terminates ==
    \A t \in Tasks :
        (call[t].pc = "fetching") ~>
            (Finished(call[t]) /\ Len(SourcesTried(call[t])) <= 3 * 3)

\* a call ended after it had awaited all three sources
C28_Witness ==
    \E t \in Tasks :
        /\ Finished(call[t])
        /\ Len(SourcesTried(call[t])) = 3

\* C29: once two concurrent get_data calls for the same symbol and interval
\* have both ended, the store holds at most one row per (symbol, timestamp,
\* interval, source) key, its contents are those of running the two calls
\* one after the other in some order, and each call returned a non-empty
\* series or raised HistoricalDataError
C29_ConcurrentCallsSerialize ==
    (calls = 2 /\ \A t \in Tasks : Finished(call[t])) =>
        /\ \A i, j \in 1..Len(store) : RowKey(store[i]) = RowKey(store[j]) => i = j
        /\ \E rows \in RunSerially(call[1], call[2]) \cup RunSerially(call[2], call[1]) :
              Range(rows) = Range(store)
        /\ \A t \in Tasks :
              \/ call[t].pc = "returned" /\ call[t].result # <<>>
              \/ call[t].pc = "raised" /\ call[t].error.type = "HistoricalDataError"

\* the keys of the candles in data
KeysOf(data) == {RowKey(d) : d \in Range(data)}

\* C30: a step in which a get_data call ends in a cache hit, in the
\* stale-cache fallback or in HistoricalDataError leaves the store unchanged;
\* the store changes only in a step in which a call returns the non-empty
\* result of its fetch, every row that step adds is one of the fetched
\* candles, and every row whose key is not the key of a fetched candle stays
C30_WritesOnlyFetchedKeys ==
    [][/\ \A t \in Tasks :
            (call'[t] # call[t] /\ Finished(call'[t]) /\ call'[t].served # "api") =>
                store' = store
       /\ store' # store =>
            \E t \in Tasks :
                /\ call[t].pc = "fetching"
                /\ call'[t].pc = "returned"
                /\ call'[t].served = "api"
                /\ call'[t].api_data # <<>>
                /\ Range(store') \ Range(store) \subseteq Range(call'[t].api_data)
                /\ \A r \in Range(store) :
                      RowKey(r) \notin KeysOf(call'[t].api_data) => r \in Range(store')]_vars
\* a call returned the candles it fetched and saved, next to stored rows of
\* other keys (another source, an older timestamp) and in place of a stored
\* row of the same key
C30_Witness ==
    \E t \in Tasks :
        /\ call[t].pc = "returned"
        /\ call[t].served = "api"
        /\ Range(call[t].api_data) \subseteq Range(store)
        /\ \E r \in Range(store) :
              /\ r.source = call[t].api_data[1].source
              /\ RowKey(r) \notin KeysOf(call[t].api_data)
        /\ \E r \in Range(store) : r.source # call[t].api_data[1].source
        /\ \E r \in Range(prev[t].result) : r.timestamp \in {d.timestamp : d \in Range(call[t].api_data)}
====
